---- MODULE Spec2Model ----
(***************************************************************************)
(* Model of the Ailegitimo document-analysis backend.                      *)
(*                                                                         *)
(* Three deployable Flask modules are modelled:                            *)
(*   app/app.py      handle_analysis, handle_chat                          *)
(*   api/analyze.py  analyze_document, chat                                *)
(*   api/chat.py     chat                                                  *)
(* A request is handled by one atomic action; the collaborators (OCR,      *)
(* object store, analytics table, generative AI) are outside the program,  *)
(* so their results are inputs of the action and every call made is        *)
(* written, with its argument and result, to the call log of the request.  *)
(***************************************************************************)
EXTENDS Integers, Sequences, FiniteSets, TLC

VARIABLES
    env,      \* the process environment: which settings are configured
    kb,       \* the two knowledge-base files on disk (their texts)
    now,      \* wall clock, in whole seconds (strftime('%Y%m%d_%H%M%S'))
    uuids,    \* number of uuid4() tokens drawn so far
    last,     \* the request being answered: [handler, req], or Idle
    resp,     \* the HTTP response of that request: [status, body]
    calls,    \* collaborator calls made for that request, in order
    docs      \* history: the identifiers given to uploads, oldest first

vars == <<env, kb, now, uuids, last, resp, calls, docs>>

----------------------------------------------------------------------------
(* Bounds of the model *)

MaxClock == 1
MaxUuids == 2
MaxHistory == 3
MaxUploads == 2

(* Constants of the program *)

MaxUploadBytes == 10485760
DocBudget == 4000
KbBudget == 2000
ContextBudget == 3000
MinMeaningful == 10

Min(a, b) == IF a <= b THEN a ELSE b

----------------------------------------------------------------------------
(* Text.  A Python str is modelled by its identity, its length and the     *)
(* length of str.strip(); slicing keeps the identity and cuts the length.  *)

Text(id, len, stripped) == [id |-> id, len |-> len, stripped |-> stripped]

EmptyText == Text("", 0, 0)

Literal(s, n) == Text(s, n, n)

\* t[:n]
Prefix(t, n) ==
    IF t.len <= n THEN t
    ELSE [t EXCEPT !.len = n, !.stripped = Min(t.stripped, n)]

----------------------------------------------------------------------------
(* File names.  A name is a sequence of tokens: "." or a run of letters.   *)

Lower(tok) == IF tok = "PNG" THEN "png" ELSE tok

lower(name) == [i \in 1..Len(name) |-> Lower(name[i])]

LastDot(name) ==
    LET dots == {i \in 1..Len(name) : name[i] = "."}
    IN  IF dots = {} THEN 0 ELSE CHOOSE i \in dots : \A j \in dots : j <= i

\* os.path.splitext(name)[1]: from the last dot, unless only dots precede it
splitext(name) ==
    LET d == LastDot(name)
    IN  IF d = 0 \/ (\A i \in 1..(d - 1) : name[i] = ".")
        THEN <<>>
        ELSE SubSeq(name, d, Len(name))

endswith(name, suffix) ==
    /\ Len(name) >= Len(suffix)
    /\ SubSeq(name, Len(name) - Len(suffix) + 1, Len(name)) = suffix

Dot(e) == <<".", e>>

ImageExts == {Dot("png"), Dot("jpg"), Dot("jpeg")}
SupportedExts == {Dot("txt"), Dot("pdf"), Dot("docx")} \cup ImageExts

ExtTokens == {"txt", "pdf", "docx", "png", "jpg", "jpeg", "csv", "PNG"}

FileNames ==
    {<<>>, <<"report">>, <<".", "txt">>}
        \cup {<<"report", ".", e>> : e \in ExtTokens}

----------------------------------------------------------------------------
(* Uploaded files: the size in bytes, whether the bytes are well formed    *)
(* for the parser they are given to (UTF-8, PDF, DOCX), and the text a     *)
(* successful parse yields.                                                *)

DocTexts ==
    { Text("blank", 3, 0),
      Text("short", MinMeaningful - 1, MinMeaningful - 1),
      Text("clause", MinMeaningful, MinMeaningful),
      Text("statute", DocBudget + 1, DocBudget + 1) }

Files ==
    {[size |-> t.len, wellFormed |-> TRUE, text |-> t] : t \in DocTexts}
        \cup {[size |-> 64, wellFormed |-> FALSE, text |-> EmptyText]}
        \cup {[size |-> MaxUploadBytes + d, wellFormed |-> TRUE,
               text |-> Text("archive", MaxUploadBytes + d, MaxUploadBytes + d)]
                 : d \in {0, 1}}

NoFile == [size |-> 0, wellFormed |-> TRUE, text |-> EmptyText]

Languages == {"Hindi"}
NoLanguage == "<absent>"

\* multipart form of a POST to /analyze: the name of the file field sent
AnalyzeRequests ==
    {[field |-> "none", filename |-> <<>>, file |-> NoFile, language |-> l]
        : l \in Languages \cup {NoLanguage}}
      \cup [field : {"file", "document"}, filename : FileNames,
            file : Files, language : Languages \cup {NoLanguage}]

----------------------------------------------------------------------------
(* Collaborator results *)

Throw == "throw"

OcrTexts == <<Text("scan", MinMeaningful + 2, MinMeaningful + 2), Text("word", 4, 4)>>

OcrResults ==
    { [raises |-> TRUE, error |-> FALSE, annotations |-> <<>>],
      [raises |-> FALSE, error |-> TRUE, annotations |-> <<>>],
      [raises |-> FALSE, error |-> FALSE, annotations |-> <<>>],
      [raises |-> FALSE, error |-> FALSE, annotations |-> <<OcrTexts[1]>>],
      [raises |-> FALSE, error |-> FALSE, annotations |-> <<OcrTexts[2]>>],
      [raises |-> FALSE, error |-> FALSE, annotations |-> OcrTexts] }

NoOcr == [raises |-> FALSE, error |-> FALSE, annotations |-> <<>>]

AiReplies == {"reply-1", "reply-2"}

AnalyzeOutcomes ==
    [ocr : OcrResults,
     upload : {"ok", Throw},
     insert : {"ok", "errors", Throw},
     ai : AiReplies \cup {Throw},
     elapsed : {0, 1}]

Call(svc, op, arg, result) == [svc |-> svc, op |-> op, arg |-> arg, result |-> result]

----------------------------------------------------------------------------
(* Configuration *)

ConfigNames ==
    <<"GEMINI_API_KEY", "GCP_PROJECT_ID", "GCS_BUCKET_NAME",
      "BIGQUERY_DATASET", "BIGQUERY_TABLE", "GCP_CREDENTIALS_JSON">>

EnvNames == {ConfigNames[i] : i \in 1..Len(ConfigNames)} \cup {"GCP_CREDENTIALS_BASE64"}

AllSet == [k \in EnvNames |-> TRUE]

\* deployments: everything set, or exactly one setting absent
Envs == {AllSet} \cup {[AllSet EXCEPT ![k] = FALSE] : k \in EnvNames}

BnsText == Text("bns", KbBudget + 1, KbBudget + 1)
ConstitutionText == Text("constitution", KbBudget, KbBudget)

KnowledgeBases_present == [bns |-> BnsText, constitution |-> ConstitutionText]
KnowledgeBases_missing == [bns |-> EmptyText, constitution |-> EmptyText]

Deployments ==
    {[env |-> e, kb |-> KnowledgeBases_present] : e \in Envs}
        \cup {[env |-> AllSet, kb |-> KnowledgeBases_missing]}

Idle == [handler |-> "none", ids |-> <<>>]
NoResponse == [status |-> 0, body |-> [none |-> TRUE]]

\* what a handler run yields: the response, the collaborator calls made,
\* how many uuid4 tokens it drew, the identifiers it gave the upload, and
\* the seconds that passed between its two clock reads
Response(status, body, log) ==
    [status |-> status, body |-> body, calls |-> log,
     drew |-> 0, ids |-> <<>>, elapsed |-> 0]

None == <<>>
Some(x) == <<x>>

----------------------------------------------------------------------------
(* app/app.py *)

Return(text, log) ==
    [raised |-> FALSE, exc |-> [type |-> "", msg |-> <<>>], text |-> text, calls |-> log]

Raise(type, msg, log) ==
    [raised |-> TRUE, exc |-> [type |-> type, msg |-> msg], text |-> EmptyText, calls |-> log]

text_detection(file, ocr) == Call("vision", "text_detection", [content |-> file.size], ocr)

extract_text_from_file_in_memory(file, filename, ocr) ==
    LET ext == lower(splitext(filename))
    IN  IF ext = Dot("txt") THEN
            IF file.wellFormed THEN Return(file.text, <<>>)
            ELSE Raise("UnicodeDecodeError", <<"utf-8 codec can't decode">>, <<>>)
        ELSE IF ext = Dot("pdf") THEN
            IF file.wellFormed THEN Return(file.text, <<>>)
            ELSE Raise("Exception", <<"PDF processing error">>, <<>>)
        ELSE IF ext = Dot("docx") THEN
            IF file.wellFormed THEN Return(file.text, <<>>)
            ELSE Raise("Exception", <<"DOCX processing error">>, <<>>)
        ELSE IF ext \in ImageExts THEN
            IF ~env.GCP_CREDENTIALS_JSON THEN
                Raise("Exception",
                      <<"Google Cloud credentials not configured for image processing">>,
                      <<>>)
            ELSE IF ocr.raises THEN
                Raise("Exception", <<"Image processing error", "text_detection failed">>,
                      <<text_detection(file, ocr)>>)
            ELSE IF ocr.error THEN
                Raise("Exception", <<"Image processing error", "Vision API Error">>,
                      <<text_detection(file, ocr)>>)
            ELSE Return(IF ocr.annotations # <<>> THEN ocr.annotations[1] ELSE EmptyText,
                        <<text_detection(file, ocr)>>)
        ELSE Raise("ValueError", <<"Unsupported file type">> \o ext, <<>>)

\* the f-string prompt of handle_analysis: what it embeds
initial_prompt(language, document_text) ==
    [template |-> "handle_analysis",
     language |-> Some(language),
     bns |-> kb.bns,
     constitution |-> kb.constitution,
     document |-> document_text]

handle_analysis(req, out) ==
    LET missing_configs == SelectSeq(ConfigNames, LAMBDA k : ~env[k])
        language == IF req.language = NoLanguage THEN "English" ELSE req.language
        ex == extract_text_from_file_in_memory(req.file, req.filename, out.ocr)
        document_id == [kind |-> "uuid4", n |-> uuids + 1]
        blob_name == [prefix |-> "uploads", stamp |-> document_id, filename |-> req.filename]
        gcs_path == [bucket |-> "GCS_BUCKET_NAME", blob |-> blob_name]
        metadata ==
            [document_id |-> document_id,
             filename |-> req.filename,
             upload_timestamp |-> now,
             status |-> "UPLOADED",
             storage_path |-> Some(gcs_path)]
        upload == Call("gcs", "upload_from_string",
                       [blob |-> blob_name, size |-> req.file.size], out.upload)
        insert == Call("bigquery", "insert_rows_json", metadata, out.insert)
        generate == Call("gemini", "generate_content",
                         initial_prompt(language, ex.text), out.ai)
        issued(r) == [r EXCEPT !.drew = 1,
                               !.ids = <<[document_id |-> document_id, blob |-> Some(blob_name)]>>]
    IN  IF missing_configs # <<>> THEN
            Response(500, [error |-> <<"Missing environment variables">> \o missing_configs], <<>>)
        ELSE IF req.field # "file" THEN
            Response(400, [error |-> <<"No file part">>], <<>>)
        ELSE IF req.filename = <<>> THEN
            Response(400, [error |-> <<"No file selected">>], <<>>)
        ELSE IF ex.raised THEN
            Response(500, [error |-> ex.exc.msg], ex.calls)
        ELSE IF ex.text.stripped = 0 THEN
            Response(400, [error |-> <<"No text could be extracted from the file">>], ex.calls)
        ELSE IF out.upload = Throw THEN
            issued(Response(500, [error |-> <<"upload_from_string failed">>],
                            ex.calls \o <<upload>>))
        ELSE IF out.insert = Throw THEN
            issued(Response(500, [error |-> <<"insert_rows_json failed">>],
                            ex.calls \o <<upload, insert>>))
        ELSE IF out.ai = Throw THEN
            issued(Response(500, [error |-> <<"generate_content failed">>],
                            ex.calls \o <<upload, insert, generate>>))
        ELSE
            issued(Response(200,
                            [analysis |-> out.ai,
                             documentText |-> ex.text,
                             documentId |-> document_id],
                            ex.calls \o <<upload, insert, generate>>))

----------------------------------------------------------------------------
(* api/analyze.py: /api/analyze *)

extract_text_from_file(file, filename, ocr) ==
    LET name == lower(filename)
    IN  IF \E e \in ImageExts : endswith(name, e) THEN
            IF ocr.raises THEN
                Raise("Exception", <<"text_detection failed">>, <<text_detection(file, ocr)>>)
            ELSE Return(IF ocr.annotations # <<>> THEN ocr.annotations[1]
                        ELSE Literal("No text found in image", 22),
                        <<text_detection(file, ocr)>>)
        ELSE IF endswith(name, Dot("txt")) THEN
            IF file.wellFormed THEN Return(file.text, <<>>)
            ELSE Return(Text("latin-1", file.size, file.size), <<>>)
        ELSE IF endswith(name, Dot("pdf")) THEN
            Return(Literal("PDF processing not implemented. Please convert to image format.", 63),
                   <<>>)
        ELSE IF endswith(name, Dot("docx")) THEN
            Return(Literal("DOCX processing not implemented. Please convert to text or image format.", 72),
                   <<>>)
        ELSE Return(Literal("Unsupported file format", 23), <<>>)

\* the f-string prompt of analyze_with_gemini: what it embeds
analysis_prompt(text) ==
    [template |-> "analyze_with_gemini",
     language |-> None,
     bns |-> IF kb.bns.len > 0 THEN Prefix(kb.bns, KbBudget)
             ELSE Literal("Not available", 13),
     constitution |-> IF kb.constitution.len > 0 THEN Prefix(kb.constitution, KbBudget)
                      ELSE Literal("Not available", 13),
     document |-> Prefix(text, DocBudget)]

analyze_with_gemini_fallback(text, ai) ==
    [calls |-> <<Call("gemini", "generate_content", analysis_prompt(text), ai)>>,
     raised |-> FALSE,
     text |-> IF ai = Throw THEN "Analysis unavailable" ELSE ai]

\* the call analyze_with_gemini makes, and what it returns or raises
analyze_with_gemini(text, ai) ==
    [calls |-> <<Call("gemini", "generate_content", analysis_prompt(text), ai)>>,
     raised |-> ai = Throw,
     text |-> ai]

upload_to_gcs_keeps_path(req, out) ==
    LET blob_name == [prefix |-> "documents", stamp |-> now, filename |-> req.filename]
        upload == Call("gcs", "upload_from_file",
                       [blob |-> blob_name, size |-> req.file.size], out.upload)
    IN  IF ~env.GCS_BUCKET_NAME THEN [calls |-> <<>>, storage_path |-> None]
        ELSE [calls |-> <<upload>>, storage_path |-> Some(blob_name)]

\* the calls upload_to_gcs makes, and the storage path the handler keeps
upload_to_gcs(req, out) ==
    LET blob_name == [prefix |-> "documents", stamp |-> now, filename |-> req.filename]
        upload == Call("gcs", "upload_from_file",
                       [blob |-> blob_name, size |-> req.file.size], out.upload)
    IN  IF ~env.GCS_BUCKET_NAME THEN [calls |-> <<>>, storage_path |-> None]
        ELSE IF out.upload = Throw THEN [calls |-> <<upload>>, storage_path |-> None]
        ELSE [calls |-> <<upload>>, storage_path |-> Some(blob_name)]

\* the calls log_to_bigquery makes; it returns nothing and raises nothing
log_to_bigquery(document_data, out) ==
    IF ~env.BIGQUERY_DATASET \/ ~env.BIGQUERY_TABLE THEN <<>>
    ELSE <<Call("bigquery", "insert_rows_json", document_data, out.insert)>>

analyze_document(req, out) ==
    LET fail(msg) == [success |-> FALSE, error |-> msg]
        ex == extract_text_from_file(req.file, req.filename, out.ocr)
        up == upload_to_gcs(req, out)
        analysis == analyze_with_gemini(ex.text, out.ai)
        document_data ==
            [document_id |-> [kind |-> "strftime", stamp |-> now + out.elapsed,
                              filename |-> req.filename],
             filename |-> req.filename,
             upload_timestamp |-> now + out.elapsed,
             status |-> "analyzed",
             storage_path |-> up.storage_path]
        logged == log_to_bigquery(document_data, out)
    IN  IF req.field # "document" THEN
            Response(400, fail(<<"No document file provided">>), <<>>)
        ELSE IF req.filename = <<>> THEN
            Response(400, fail(<<"No file selected">>), <<>>)
        ELSE IF req.file.size > MaxUploadBytes THEN
            Response(413, fail(<<"File too large. Maximum size is 10MB.">>), <<>>)
        ELSE IF ~env.GCP_CREDENTIALS_BASE64 THEN
            Response(500, fail(<<"Service initialization failed", "No valid credentials found">>),
                     <<>>)
        ELSE IF ~env.GEMINI_API_KEY THEN
            Response(500, fail(<<"Service initialization failed", "GEMINI_API_KEY not found">>),
                     <<>>)
        ELSE IF ex.raised THEN
            Response(500, fail(<<"Text extraction failed">> \o ex.exc.msg), ex.calls)
        ELSE IF ex.text.len = 0 \/ ex.text.stripped < MinMeaningful THEN
            Response(400, fail(<<"No meaningful text could be extracted from the document">>),
                     ex.calls)
        ELSE IF analysis.raised THEN
            Response(500, fail(<<"Analysis failed", "generate_content failed">>),
                     ex.calls \o up.calls \o analysis.calls)
        ELSE
            [Response(200,
                      [success |-> TRUE,
                       analysis |-> analysis.text,
                       extracted_text_length |-> ex.text.len,
                       document_id |-> document_data.document_id],
                      ex.calls \o up.calls \o analysis.calls \o logged)
                EXCEPT !.ids = <<[document_id |-> document_data.document_id,
                                  blob |-> up.storage_path]>>,
                       !.elapsed = out.elapsed]

----------------------------------------------------------------------------
(* Chat requests.  request.get_json() raises on a body that is not JSON,   *)
(* and yields None, or a dict holding the keys that were sent.             *)

Turns ==
    { [role |-> "user", parts |-> <<"question">>],
      [role |-> "model", parts |-> <<"answer">>],
      [role |-> "user", parts |-> <<>>] }

Histories == UNION {[1..n -> Turns] : n \in 0..MaxHistory}

Contexts == {Text("analysis", ContextBudget, ContextBudget),
             Text("long analysis", ContextBudget + 1, ContextBudget + 1)}

JsonObjects ==
    [kind : {"object"},
     history : {None} \cup {Some(h) : h \in Histories},
     language : Languages \cup {NoLanguage},
     question : {None, Some("question")},
     context : {None} \cup {Some(c) : c \in Contexts}]

NoJson(kind) ==
    [kind |-> kind, history |-> None, language |-> NoLanguage,
     question |-> None, context |-> None]

ChatBodies == {NoJson("malformed"), NoJson("null")} \cup JsonObjects

ChatRequests == [method : {"POST"}, body : ChatBodies]

\* `not data`: None, or a dict without keys
falsy(data) ==
    \/ data.kind = "null"
    \/ /\ data.history = None
       /\ data.language = NoLanguage
       /\ data.question = None
       /\ data.context = None

\* data.get('history', [])
history_of(data) == IF data.history = None THEN <<>> ELSE data.history[1]

\* history[:-1]
but_last(history) == SubSeq(history, 1, Len(history) - 1)

no_history_unchecked(history) == FALSE

\* `if not history:`
no_history(history) == history = <<>>

\* the session replay of handle_chat and of api/chat.py's chat, which differ
\* in the wording of the prompt only
replay_chat(template, req, ai) ==
    LET data == req.body
        history == history_of(data)
        language == IF data.language = NoLanguage THEN "English" ELSE data.language
        start == Call("gemini", "start_chat", [history |-> but_last(history)], "session")
        prompt == [template |-> template, language |-> language,
                   user_question |-> history[Len(history)].parts[1]]
        send == Call("gemini", "send_message", prompt, ai)
    IN  IF ~env.GEMINI_API_KEY THEN
            Response(500, [error |-> <<"GEMINI_API_KEY not configured">>], <<>>)
        ELSE IF data.kind = "malformed" THEN
            Response(500, [error |-> <<"400 Bad Request">>], <<>>)
        ELSE IF falsy(data) THEN
            Response(400, [error |-> <<"No JSON data received">>], <<>>)
        ELSE IF no_history(history) THEN
            Response(400, [error |-> <<"No chat history provided">>], <<>>)
        ELSE IF history = <<>> \/ history[Len(history)].parts = <<>> THEN
            \* history[-1]['parts'][0] raises IndexError
            Response(500, [error |-> <<"list index out of range">>], <<start>>)
        ELSE IF ai = Throw THEN
            Response(500, [error |-> <<"send_message failed">>], <<start, send>>)
        ELSE Response(200, [response |-> ai], <<start, send>>)

\* app/app.py /chat
handle_chat(req, ai) == replay_chat("handle_chat", req, ai)

\* api/chat.py
chat_py(req, ai) ==
    IF req.method = "GET" THEN
        Response(200, [message |-> <<"Chat endpoint is working. Send POST request with history.">>],
                 <<>>)
    ELSE replay_chat("chat.py", req, ai)

\* api/analyze.py /api/chat
chat(req, ai) ==
    LET data == req.body
        fail(msg) == [success |-> FALSE, error |-> msg]
        prompt == [template |-> "chat",
                   question |-> data.question[1],
                   context |-> IF data.context # None /\ data.context[1].len > 0
                               THEN Prefix(data.context[1], ContextBudget)
                               ELSE Literal("No previous context available", 29)]
        generate == Call("gemini", "generate_content", prompt, ai)
    IN  IF data.kind = "malformed" THEN
            Response(500, fail(<<"Chat failed", "400 Bad Request">>), <<>>)
        ELSE IF falsy(data) \/ data.question = None THEN
            Response(400, fail(<<"No question provided">>), <<>>)
        ELSE IF ~env.GEMINI_API_KEY THEN
            Response(500, fail(<<"Chat failed", "GEMINI_API_KEY not found">>), <<>>)
        ELSE IF ai = Throw THEN
            Response(500, fail(<<"Chat failed", "generate_content failed">>), <<generate>>)
        ELSE Response(200, [success |-> TRUE, response |-> ai], <<generate>>)

----------------------------------------------------------------------------
(* The state machine *)

Init ==
    /\ \E d \in Deployments : env = d.env /\ kb = d.kb
    /\ now = 0
    /\ uuids = 0
    /\ last = Idle
    /\ resp = NoResponse
    /\ calls = <<>>
    /\ docs = <<>>

IsImageName(filename) == \E e \in ImageExts : endswith(lower(filename), e)

Happy(ocr) ==
    [ocr |-> ocr, upload |-> "ok", insert |-> "ok", ai |-> "reply-1", elapsed |-> 0]

\* the /analyze route of the deployed module
analyze(handler, req, out) ==
    IF handler = "handle_analysis" THEN handle_analysis(req, out)
    ELSE analyze_document(req, out)

\* the collaborator results a run of the handler on req can consume: the
\* OCR result for an image name, the others when it gets past extraction
OutcomesFor(handler, req) ==
    UNION { IF \E i \in DOMAIN analyze(handler, req, Happy(ocr)).calls :
                   analyze(handler, req, Happy(ocr)).calls[i].svc # "vision"
            THEN {o \in AnalyzeOutcomes : o.ocr = ocr}
            ELSE {Happy(ocr)}
            : ocr \in IF IsImageName(req.filename) THEN OcrResults ELSE {NoOcr} }

\* a handler ran to its return statement
Answer(handler, req, r) ==
    /\ uuids + r.drew <= MaxUuids
    /\ now + r.elapsed <= MaxClock
    /\ last' = [handler |-> handler, req |-> req, ids |-> r.ids]
    /\ resp' = [status |-> r.status, body |-> r.body]
    /\ calls' = r.calls
    /\ uuids' = uuids + r.drew
    /\ now' = now + r.elapsed
    /\ UNCHANGED <<env, kb>>

HandleAnalysisOn(requests) ==
    /\ last = Idle
    /\ \E req \in requests : \E out \in OutcomesFor("handle_analysis", req) :
           Answer("handle_analysis", req, handle_analysis(req, out))

AnalyzeDocumentOn(requests) ==
    /\ last = Idle
    /\ \E req \in requests : \E out \in OutcomesFor("analyze_document", req) :
           Answer("analyze_document", req, analyze_document(req, out))

HandleAnalysis == HandleAnalysisOn(AnalyzeRequests) /\ UNCHANGED docs

AnalyzeDocument == AnalyzeDocumentOn(AnalyzeRequests) /\ UNCHANGED docs

HandleChat ==
    /\ last = Idle
    /\ \E req \in ChatRequests : \E ai \in AiReplies \cup {Throw} :
           Answer("handle_chat", req, handle_chat(req, ai))
    /\ UNCHANGED docs

ChatPy ==
    /\ last = Idle
    /\ \E req \in ChatRequests \cup {[method |-> "GET", body |-> NoJson("null")]} :
           \E ai \in AiReplies \cup {Throw} :
               Answer("chat.py", req, chat_py(req, ai))
    /\ UNCHANGED docs

Chat ==
    /\ last = Idle
    /\ \E req \in ChatRequests : \E ai \in AiReplies \cup {Throw} :
           Answer("chat", req, chat(req, ai))
    /\ UNCHANGED docs

\* the response is sent and the request context torn down
Teardown ==
    /\ last # Idle
    /\ last' = Idle
    /\ resp' = NoResponse
    /\ calls' = <<>>
    /\ UNCHANGED <<env, kb, now, uuids, docs>>

Tick ==
    /\ last = Idle
    /\ now < MaxClock
    /\ now' = now + 1
    /\ UNCHANGED <<env, kb, uuids, last, resp, calls, docs>>

Next ==
    \/ HandleAnalysis
    \/ AnalyzeDocument
    \/ HandleChat
    \/ ChatPy
    \/ Chat
    \/ Teardown
    \/ Tick

Spec == Init /\ [][Next]_vars

----------------------------------------------------------------------------
(* Uploads with their history.  The same handlers, on a fully configured   *)
(* deployment, with the identifiers of every upload kept in docs.          *)

Uploads ==
    [field : {"file", "document"},
     filename : {<<"report", ".", "txt">>, <<"report", ".", "pdf">>},
     file : {[size |-> MinMeaningful, wellFormed |-> TRUE,
              text |-> Text("clause", MinMeaningful, MinMeaningful)]},
     language : {NoLanguage}]

InitUploads == Init /\ env = AllSet /\ kb = KnowledgeBases_present

Record ==
    /\ Len(docs) + Len(last'.ids) <= MaxUploads
    /\ docs' = docs \o last'.ids

HandleAnalysisUpload == HandleAnalysisOn(Uploads) /\ Record

AnalyzeDocumentUpload == AnalyzeDocumentOn(Uploads) /\ Record

NextUploads ==
    \/ HandleAnalysisUpload
    \/ AnalyzeDocumentUpload
    \/ Teardown
    \/ Tick

SpecUploads == InitUploads /\ [][NextUploads]_vars

----------------------------------------------------------------------------
(* Claims *)

Analyzing == last.handler \in {"handle_analysis", "analyze_document"}

Chatting == last.handler \in {"handle_chat", "chat.py", "chat"}

Posted == Analyzing \/ (Chatting /\ last.req.method = "POST")

CallsTo(svc) == {i \in DOMAIN calls : calls[i].svc = svc}

Generated == {i \in CallsTo("gemini") : calls[i].op = "generate_content"}

IsError == resp.status >= 400 /\ "error" \in DOMAIN resp.body

\* the status and body of a successful analysis made from AI reply `text`
IsAnalysis(text) ==
    /\ resp.status = 200
    /\ "analysis" \in DOMAIN resp.body
    /\ resp.body.analysis = text

StoragePathsLogged == {calls[i].arg.storage_path : i \in CallsTo("bigquery")}

\* C1: in every /analyze handler, when the object-store upload throws, the
\* pipeline goes on with no storage path: the AI is still called, a row that
\* is logged carries a null storage path, and when the AI call returns, the
\* response is 200 with its analysis.
C1_UploadFailureDoesNotAbort ==
    (Analyzing /\ \E i \in CallsTo("gcs") : calls[i].result = Throw)
        => /\ Generated # {}
           /\ StoragePathsLogged \subseteq {None}
           /\ \A i \in Generated : calls[i].result # Throw => IsAnalysis(calls[i].result)

\* C2: in every /analyze handler, a failed metadata insert (an exception, or
\* a non-empty list of row errors) is not propagated: the response is the
\* one of the same request with a successful insert, that is, 200 with the
\* analysis when the AI call returns and 500 when the AI call raises.
C2_InsertFailureNotPropagated ==
    (Analyzing /\ \E i \in CallsTo("bigquery") : calls[i].result \in {Throw, "errors"})
        => /\ Generated # {}
           /\ \A i \in Generated :
                 IF calls[i].result = Throw THEN resp.status = 500
                 ELSE IsAnalysis(calls[i].result)

\* C3: when GEMINI_API_KEY is not configured, every POST to /analyze and to
\* /chat is answered 500, whatever the request holds.
C3_NoKeyAlways500 ==
    (Posted /\ ~env.GEMINI_API_KEY) => resp.status = 500

\* C4: an upload whose lowercased extension is not a supported one is
\* answered with an error, and no text of it is sent to the AI.
C4_UnsupportedNeverAnalysed ==
    (/\ Analyzing
     /\ last.req.field # "none"
     /\ last.req.filename # <<>>
     /\ lower(splitext(last.req.filename)) \notin SupportedExts)
        => IsError /\ CallsTo("gemini") = {}

\* C5: with the AI key and the credentials configured, a POST to /analyze
\* without a file, or with an empty file name, is answered 400 with an
\* `error` key and no collaborator call, whether or not the project, bucket,
\* dataset and table settings are present.
C5_NoFileIs400 ==
    (/\ Analyzing
     /\ env.GEMINI_API_KEY /\ env.GCP_CREDENTIALS_JSON /\ env.GCP_CREDENTIALS_BASE64
     /\ (last.req.field = "none" \/ last.req.filename = <<>>))
        => resp.status = 400 /\ "error" \in DOMAIN resp.body /\ calls = <<>>

\* C6: in handle_chat (app/app.py) and chat (api/chat.py), with the AI key
\* configured, a POST whose JSON body has no history or an empty one is
\* answered 400 without any call to the AI collaborator; a call is made only
\* for a history of at least one turn.
C6_EmptyHistoryRejected ==
    (/\ last.handler \in {"handle_chat", "chat.py"}
     /\ last.req.method = "POST"
     /\ env.GEMINI_API_KEY
     /\ last.req.body.kind # "malformed")
        => /\ history_of(last.req.body) = <<>> => (resp.status = 400 /\ calls = <<>>)
           /\ calls # <<>> => Len(history_of(last.req.body)) >= 1

C6_Witness ==
    /\ last.handler \in {"handle_chat", "chat.py"}
    /\ last.req.method = "POST"
    /\ env.GEMINI_API_KEY
    /\ last.req.body.history = Some(<<>>)
    /\ last.req.body.language # NoLanguage
    /\ resp.status = 400
    /\ resp.body.error = <<"No chat history provided">>

\* C7: in every /analyze handler an AI call that raises fails the request
\* with 500 and a JSON error body and no analysis; a 200 response is given
\* only after one AI call that returned a text, which is the `analysis`
\* field of the response.
C7_AiFailureFailsRequest ==
    Analyzing
        => /\ (\E i \in Generated : calls[i].result = Throw)
                => (resp.status = 500 /\ IsError /\ "analysis" \notin DOMAIN resp.body)
           /\ resp.status = 200
                => /\ Cardinality(Generated) = 1
                   /\ \A i \in Generated :
                         calls[i].result \in AiReplies /\ IsAnalysis(calls[i].result)

C7_Witness ==
    /\ last.handler = "analyze_document"
    /\ \E i \in Generated : calls[i].result = Throw
    /\ resp.status = 500
    /\ resp.body.error = <<"Analysis failed", "generate_content failed">>

\* C8: the prompt /analyze sends to the AI embeds at most DocBudget
\* characters of the document and at most KbBudget characters of each
\* knowledge-base text.
C8_PromptWithinBudget ==
    Analyzing
        => \A i \in Generated :
              /\ calls[i].arg.document.len <= DocBudget
              /\ calls[i].arg.bns.len <= KbBudget
              /\ calls[i].arg.constitution.len <= KbBudget

OcrSucceeded(i) == ~calls[i].result.raises /\ ~calls[i].result.error

\* C9: for an image on which OCR succeeds, the extracted text is the first
\* annotation when there is one and a non-empty sentinel when there is none:
\* an empty annotation list is not answered 400, and the document text sent
\* to the AI is then non-empty.
C9_EmptyOcrIsNotAnError ==
    Analyzing
        => \A i \in CallsTo("vision") :
              OcrSucceeded(i)
                => IF calls[i].result.annotations = <<>>
                   THEN /\ resp.status # 400
                        /\ \A g \in Generated : calls[g].arg.document.len > 0
                   ELSE \A g \in Generated :
                           calls[g].arg.document.id = calls[i].result.annotations[1].id

\* C10: any two uploads get different document ids, and different storage
\* object names.
C10_DocumentIdsUnique ==
    \A i, j \in DOMAIN docs :
        i # j => /\ docs[i].document_id # docs[j].document_id
                 /\ (docs[i].blob # None /\ docs[j].blob # None)
                        => docs[i].blob # docs[j].blob

\* the setting holding the service-account credentials the handler reads
CredentialsOf(handler) ==
    IF handler = "handle_analysis" THEN "GCP_CREDENTIALS_JSON" ELSE "GCP_CREDENTIALS_BASE64"

\* the settings the storage upload needs, and those the metadata insert needs
StorageSettings(handler) == {CredentialsOf(handler), "GCP_PROJECT_ID", "GCS_BUCKET_NAME"}

LoggingSettings(handler) ==
    {CredentialsOf(handler), "GCP_PROJECT_ID", "BIGQUERY_DATASET", "BIGQUERY_TABLE"}

\* a text file of meaningful content, within the size limit, in the file
\* field the handler reads
WellFormedUpload ==
    /\ Analyzing
    /\ last.req.field = (IF last.handler = "handle_analysis" THEN "file" ELSE "document")
    /\ last.req.filename = <<"report", ".", "txt">>
    /\ last.req.file.wellFormed
    /\ last.req.file.text.stripped >= MinMeaningful
    /\ last.req.file.size <= MaxUploadBytes

\* C11: with the AI key configured and one of the persistence settings
\* (credentials, project id, bucket, dataset, table) absent, a well-formed
\* upload is still analysed: the step that needs the absent setting makes
\* no call, the AI is called, and when it returns the response is 200 with
\* its analysis.
C11_PersistenceOptional ==
    (/\ WellFormedUpload
     /\ env.GEMINI_API_KEY
     /\ \E k \in StorageSettings(last.handler) \cup LoggingSettings(last.handler) : ~env[k])
        => /\ (\E k \in StorageSettings(last.handler) : ~env[k]) => CallsTo("gcs") = {}
           /\ (\E k \in LoggingSettings(last.handler) : ~env[k]) => CallsTo("bigquery") = {}
           /\ Generated # {}
           /\ \A g \in Generated : calls[g].result # Throw => IsAnalysis(calls[g].result)

\* a file was uploaded in the file field the handler reads
FileUploaded ==
    /\ Analyzing
    /\ last.req.field = (IF last.handler = "handle_analysis" THEN "file" ELSE "document")
    /\ last.req.filename # <<>>

\* C12: in every /analyze handler an uploaded file of more than
\* MaxUploadBytes bytes is answered 413 with no collaborator call (no OCR,
\* upload, insert or AI call); a file of exactly MaxUploadBytes bytes is not
\* answered 413.
C12_OversizeRejected ==
    FileUploaded
        => /\ last.req.file.size > MaxUploadBytes => (resp.status = 413 /\ calls = <<>>)
           /\ last.req.file.size = MaxUploadBytes => resp.status # 413

ChatCalls(op) == {i \in CallsTo("gemini") : calls[i].op = op}

\* a POST to /chat, with the AI key configured, of a JSON object whose
\* history has at least one turn, the last of them with a text part
HistoryPosted ==
    /\ Chatting
    /\ last.req.method = "POST"
    /\ env.GEMINI_API_KEY
    /\ last.req.body.kind = "object"
    /\ last.req.body.history # None
    /\ Len(last.req.body.history[1]) >= 1
    /\ last.req.body.history[1][Len(last.req.body.history[1])].parts # <<>>

\* C13: for a /chat request with a history of n >= 1 turns, the chat session
\* is started once with exactly the first n-1 turns of that request in their
\* order, then exactly one message is sent, built from the text of the last
\* turn and the request's language, and there is no other AI call; when the
\* message is answered, the reply is the response.
C13_ChatReplaysHistory ==
    HistoryPosted
        => LET history == last.req.body.history[1]
               n == Len(history)
               language == IF last.req.body.language = NoLanguage THEN "English"
                           ELSE last.req.body.language
           IN  /\ Len(calls) = 2
               /\ ChatCalls("start_chat") = {1}
               /\ calls[1].arg.history = SubSeq(history, 1, n - 1)
               /\ ChatCalls("send_message") = {2}
               /\ calls[2].arg.user_question = history[n].parts[1]
               /\ calls[2].arg.language = language
               /\ calls[2].result # Throw
                     => (resp.status = 200 /\ resp.body.response = calls[2].result)

\* the object name a storage path locates: handle_analysis logs a gs:// URL
\* of bucket and object name, analyze_document the object name
ObjectOf(path) == IF "bucket" \in DOMAIN path THEN path.blob ELSE path

Stored == {i \in CallsTo("gcs") : calls[i].result = "ok"}

\* C14: in every /analyze handler, a metadata row is handed to the insert
\* only after the upload step: every upload call precedes it, at most one
\* upload is made, and the row's storage_path locates the uploaded object
\* when the upload succeeded and is null when the upload failed or was not
\* made.
C14_RowStoragePathConsistent ==
    Analyzing
        => \A i \in CallsTo("bigquery") :
              /\ \A j \in CallsTo("gcs") : j < i
              /\ Cardinality(CallsTo("gcs")) <= 1
              /\ IF Stored = {} THEN calls[i].arg.storage_path = None
                 ELSE /\ calls[i].arg.storage_path # None
                      /\ \A j \in Stored :
                            ObjectOf(calls[i].arg.storage_path[1]) = calls[j].arg.blob

C14_Witness ==
    /\ last.handler = "analyze_document"
    /\ \E j \in CallsTo("gcs") : calls[j].result = Throw
    /\ \E i \in CallsTo("bigquery") : calls[i].arg.storage_path = None
    /\ resp.status = 200

====
